---- MODULE Spec2Model ----
(***************************************************************************)
(* parsekit: the parser-combinator engine of py-toolbox                    *)
(* (src/modules/parsekit/parsekit/combinator.py).                          *)
(*                                                                         *)
(* A grammar is a heap of Node objects (`nodes`, a node's identity is its  *)
(* index).  The builder calls of the library (Node(), expected, gather,    *)
(* on_fail, +, |, repeat, pack, Fatal) are the actions that create and     *)
(* configure nodes; parse is a pure recursive function of the heap, the    *)
(* node and the token list, and the Parse action records what it returned  *)
(* or raised in `call`.  RepeatNode.parse is also followed turn by turn of *)
(* its loop (`frame`), and the tokenizer (src/modules/parsekit/            *)
(* tokenizer.py) is modelled as the generator it is (`gen`).               *)
(***************************************************************************)
EXTENDS Integers, Sequences, FiniteSets, TLC

VARIABLES
    nodes,   \* the Node objects built so far: index -> fields
    call,    \* the latest library call, with what it returned or raised
    gen,     \* the generator made by tokenize(text, specs), and its output
    frame    \* a RepeatNode.parse call in progress: its locals, loop by loop

vars == <<nodes, call, gen, frame>>

(***************************************************************************)
(* Bounds of the model.                                                    *)
(***************************************************************************)
MaxNodes == 3        \* nodes of a grammar in Spec
MaxLen == 2          \* tokens handed to parse in Spec
MaxTimes == 2        \* largest min_times / max_times of a Repeat
MaxMatchNodes == 1   \* Match nodes in SpecMatch
MaxMatchLen == 1     \* tokens handed to parse in SpecMatch
MaxConfigNodes == 2  \* nodes in SpecConfig
MaxText == 4         \* characters of a text in SpecTokenize
MaxKinds == 2        \* token kinds of a specification in SpecTokenize
MaxLoopNodes == 3    \* nodes of a grammar in SpecLoop

(***************************************************************************)
(* Python's None for each kind of field.                                   *)
(***************************************************************************)
NoNode == 0                  \* an unset child (_node, _lhs, _rhs = None)
NoMax == -1                  \* _max_times = None
NoType == "NoneType"         \* _token_type = None
NoValue == "<None>"          \* _expected_value / _unexpected_value = None

\* Token(value, line, column), an instance of `type` (a subclass of Token).
NoToken == [type |-> NoType, value |-> "None", line |-> -1, column |-> -1]

\* isinstance(tok, token_type): every token is an instance of the base class.
IsInstance(tok, token_type) == token_type = "Token" \/ tok.type = token_type

\* str(tok) as used in f"{tok} - ..." and in val = str(head).
Str(tok) == IF tok = NoToken THEN "None" ELSE tok.value

\* `not tok`: None is falsy, and so is a Token (a str) whose value is "".
Falsy(tok) == tok = NoToken \/ tok.value = ""

\* `not value` for an expected/unexpected value: None or the empty string.
FalsyValue(v) == v = NoValue \/ v = ""

\* `self._max_times and ...`: None and 0 are both falsy.
TruthyMax(max_times) == max_times # NoMax /\ max_times # 0

(***************************************************************************)
(* Strings are sequences of pieces, so that prefixing and embedding are    *)
(* visible.                                                                *)
(***************************************************************************)
Spaces(n) == [i \in 1..n |-> " "]

\* _error_message(text, tok, message): the message alone when tok is falsy,
\* else "\n<line content>\n<column-1 spaces>^<message>".
ErrorMessage(tok, message) ==
    IF Falsy(tok) THEN message
    ELSE <<"\n", "<line_content>", "\n">> \o Spaces(tok.column - 1)
            \o <<"^">> \o message

\* Elements of a ParseResult: a Token, or a nested ParseResult.
Leaf(tok) == [group |-> FALSE, tok |-> tok, items |-> <<>>]
Group(items) == [group |-> TRUE, tok |-> NoToken, items |-> items]

(***************************************************************************)
(* What a parse call does: returns (result, tokens), or raises.  `log` is  *)
(* the on_fail handler invocations made during the call (nested ones       *)
(* included), in order; `calls` is the child parse calls the node itself   *)
(* made, in order, each with what it was given and what came back.         *)
(***************************************************************************)
Return(result, tokens, log, calls) ==
    [kind |-> "ok", result |-> result, tokens |-> tokens,
     token |-> NoToken, message |-> <<>>, log |-> log, calls |-> calls]

\* ParseError(tok, message): str(e) is f"{tok} - {message}", e.token is tok.
RaiseParseError(tok, message, log, calls) ==
    [kind |-> "ParseError", result |-> <<>>, tokens |-> <<>>,
     token |-> tok, message |-> <<Str(tok), " - ">> \o message,
     log |-> log, calls |-> calls]

\* FatalParseError(tok, message): a ParseError subclass, same constructor.
RaiseFatalParseError(tok, message, log, calls) ==
    [kind |-> "FatalParseError", result |-> <<>>, tokens |-> <<>>,
     token |-> tok, message |-> <<Str(tok), " - ">> \o message,
     log |-> log, calls |-> calls]

\* ValueError(message), IndexError: not ParseErrors, they carry no token.
RaiseOther(kind, message, log, calls) ==
    [kind |-> kind, result |-> <<>>, tokens |-> <<>>,
     token |-> NoToken, message |-> message, log |-> log, calls |-> calls]

\* The call never returns (an unbounded loop).
Diverge(log, calls) ==
    [kind |-> "diverges", result |-> <<>>, tokens |-> <<>>,
     token |-> NoToken, message |-> <<>>, log |-> log, calls |-> calls]

\* One self._on_fail(e) invocation; `returned` says that the node went on
\* to return its ([], tokens) right after it.
Handled(n, e, returned) ==
    [node |-> n, error |-> e.kind, token |-> e.token, message |-> e.message,
     returned |-> returned]

\* One child parse call as its caller saw it.
ChildCall(c, tokens, sub) ==
    [node |-> c, tokens |-> tokens, kind |-> sub.kind, result |-> sub.result,
     rest |-> sub.tokens, token |-> sub.token, message |-> sub.message]

\* The same exception re-raised by a caller that made `calls`.
Propagate(sub, log, calls) == [sub EXCEPT !.log = log, !.calls = calls]

(***************************************************************************)
(* A Node object.  Every subclass inherits Node's fields; the child        *)
(* fields a subclass does not have are NoNode.                             *)
(***************************************************************************)
NewObject(kind) ==
    [kind |-> kind, token_type |-> NoType, expected_value |-> NoValue,
     unexpected_value |-> NoValue, gather |-> FALSE, on_fail |-> FALSE,
     node |-> NoNode, lhs |-> NoNode, rhs |-> NoNode,
     first |-> NoNode, second |-> NoNode,
     min_times |-> 0, max_times |-> NoMax]

\* f"{value}" of an optional string.
PyStr(v) == IF v = NoValue THEN "None" ELSE v

\* The failure tail every parse shares:
\*     if self._on_fail: self._on_fail(e); return ([], tokens)
\*     else: raise e
Fail(h, n, e, tokens) ==
    IF h[n].on_fail
    THEN Return(<<>>, tokens, Append(e.log, Handled(n, e, TRUE)), e.calls)
    ELSE e

\* A mutation of Recoverable: the `except FatalParseError: raise` clause is
\* missing, so `except ParseError` catches the subclass as well.
RecoverableOrFatal(kind) == kind \in {"ParseError", "FatalParseError"}

\* What a combinator's `except ParseError` clause catches, standing after
\* `except FatalParseError: raise`: ParseErrors that are not fatal.
Recoverable(kind) == kind = "ParseError"

\* A mutation of MatchTail: the slice drops the last token, not the head.
MatchTailFromBack(tokens) == SubSeq(tokens, 1, Len(tokens) - 1)

\* tail = tokens[1:]
MatchTail(tokens) == Tail(tokens)

\* A mutation of ChoiceOrder: the branches are tried in the other order.
ChoiceOrderSwapped(self) == <<self.second, self.first>>

\* for node in [self._first, self._second]
ChoiceOrder(self) == <<self.first, self.second>>

\* A mutation of Escalate: the fatal error is built without the token.
EscalateWithoutToken(e, log, calls) ==
    RaiseFatalParseError(NoToken, e.message, log, calls)

\* raise FatalParseError(e.token, str(e)) from e
Escalate(e, log, calls) ==
    RaiseFatalParseError(e.token, e.message, log, calls)

RECURSIVE Parse(_, _, _)
RECURSIVE RepeatLoop(_, _, _, _, _, _, _)

\* Node.parse: the leaf matcher.
NodeParse(h, n, tokens) ==
    LET self == h[n] IN
    IF tokens = <<>> THEN
        LET e == RaiseParseError(NoToken, <<"tokens is empty">>, <<>>, <<>>)
        IN  IF self.on_fail
            THEN Return(<<>>, <<>>, <<Handled(n, e, TRUE)>>, <<>>)
            ELSE e
    ELSE IF self.token_type = NoType THEN
        Fail(h, n, RaiseOther("ValueError", <<"Token type is not set">>,
                              <<>>, <<>>), tokens)
    ELSE IF ~IsInstance(tokens[1], self.token_type) THEN
        Fail(h, n, RaiseParseError(tokens[1],
                       ErrorMessage(tokens[1], <<"Expected ", self.token_type>>),
                       <<>>, <<>>), tokens)
    ELSE
        LET head == tokens[1]
            tail == MatchTail(tokens)
            val == Str(head)
            matched ==
                IF self.expected_value # NoValue
                THEN val = self.expected_value
                ELSE IF self.unexpected_value # NoValue
                THEN val # self.unexpected_value
                ELSE FALSE
        IN  IF FalsyValue(self.expected_value)
               /\ FalsyValue(self.unexpected_value)
            THEN Return(<<Leaf(head)>>, tail, <<>>, <<>>)
            ELSE IF matched THEN
                IF self.gather
                THEN Return(<<Leaf(head)>>, tail, <<>>, <<>>)
                ELSE Return(<<>>, tail, <<>>, <<>>)
            ELSE
                Fail(h, n, RaiseParseError(tokens[1],
                        ErrorMessage(tokens[1],
                            <<"Expected ", PyStr(self.expected_value)>>),
                        <<>>, <<>>), tokens)

\* A mutation of PackResult: the child's result is spliced in (extend), not
\* nested (append).
PackResultSpliced(sub_result) == sub_result

\* result = []; if sub_result: result.append(sub_result)
PackResult(sub_result) ==
    IF sub_result # <<>> THEN <<Group(sub_result)>> ELSE <<>>

\* PackNode.parse
PackParse(h, n, tokens) ==
    LET self == h[n] IN
    IF self.node = NoNode THEN
        Fail(h, n, RaiseOther("ValueError", <<"node is not set">>, <<>>, <<>>),
             tokens)
    ELSE
        LET sub == Parse(h, self.node, tokens)
            calls == <<ChildCall(self.node, tokens, sub)>>
        IN  CASE sub.kind = "ok" ->
                    Return(PackResult(sub.result), sub.tokens, sub.log, calls)
              [] Recoverable(sub.kind) ->
                    Fail(h, n, Propagate(sub, sub.log, calls), tokens)
              [] OTHER -> Propagate(sub, sub.log, calls)

\* SequenceNode.parse
SequenceParse(h, n, tokens) ==
    LET self == h[n] IN
    IF self.lhs = NoNode THEN
        Fail(h, n, RaiseOther("ValueError", <<"lhs is not set">>, <<>>, <<>>),
             tokens)
    ELSE IF self.rhs = NoNode THEN
        Fail(h, n, RaiseOther("ValueError", <<"rhs is not set">>, <<>>, <<>>),
             tokens)
    ELSE
        LET l == Parse(h, self.lhs, tokens)
            lcalls == <<ChildCall(self.lhs, tokens, l)>>
        IN  CASE l.kind = "ok" ->
                    LET r == Parse(h, self.rhs, l.tokens)
                        log == l.log \o r.log
                        calls == Append(lcalls,
                                        ChildCall(self.rhs, l.tokens, r))
                    IN  CASE r.kind = "ok" ->
                                Return(l.result \o r.result, r.tokens,
                                       log, calls)
                          [] Recoverable(r.kind) ->
                                Fail(h, n, Propagate(r, log, calls), tokens)
                          [] OTHER -> Propagate(r, log, calls)
              [] Recoverable(l.kind) ->
                    Fail(h, n, Propagate(l, l.log, lcalls), tokens)
              [] OTHER -> Propagate(l, l.log, lcalls)

\* The error RepeatNode.parse builds when its child fails before min_times
\* matches.
MinimumNotMet(self, tokens, log, calls) ==
    LET tok == IF tokens # <<>> THEN tokens[1] ELSE NoToken
        line == IF ~Falsy(tok) THEN tok.line ELSE -1
        col == IF ~Falsy(tok) THEN tok.column ELSE -1
    IN  RaiseParseError(tok,
            ErrorMessage(tok, <<"Expected at least ", ToString(self.min_times),
                                " matches at ", ToString(line), ":",
                                ToString(col)>>),
            log, calls)

\* The `while tokens:` loop of RepeatNode.parse, entered with the locals
\* count, result and tokens as they stand.
RepeatLoop(h, n, count, result, tokens, log, calls) ==
    LET self == h[n] IN
    IF tokens = <<>> THEN Return(result, tokens, log, calls)
    ELSE IF TruthyMax(self.max_times) /\ count >= self.max_times
    THEN Return(result, tokens, log, calls)
    ELSE
        LET sub == Parse(h, self.node, tokens)
            log2 == log \o sub.log
            calls2 == Append(calls, ChildCall(self.node, tokens, sub))
        IN  CASE sub.kind = "ok" ->
                    \* a child that succeeds without consuming is asked again
                    \* with the same tokens: without a usable max, for ever
                    IF sub.tokens = tokens /\ ~TruthyMax(self.max_times)
                    THEN Diverge(log2, calls2)
                    ELSE RepeatLoop(h, n, count + 1, result \o sub.result,
                                    sub.tokens, log2, calls2)
              [] Recoverable(sub.kind) ->
                    IF count < self.min_times
                    THEN Fail(h, n, MinimumNotMet(self, tokens, log2, calls2),
                              tokens)
                    ELSE Return(result, tokens, log2, calls2)
              [] OTHER -> Propagate(sub, log2, calls2)

\* RepeatNode.parse
RepeatParse(h, n, tokens) ==
    LET self == h[n] IN
    IF TruthyMax(self.max_times) /\ self.min_times > self.max_times THEN
        Fail(h, n, RaiseOther("ValueError", <<"min_times > max_times">>,
                              <<>>, <<>>), tokens)
    ELSE IF self.node = NoNode THEN
        Fail(h, n, RaiseOther("ValueError", <<"node is not set">>, <<>>, <<>>),
             tokens)
    ELSE RepeatLoop(h, n, 0, <<>>, tokens, <<>>, <<>>)

\* The for-else tail of ChoiceNode.parse, reached when both branches raised
\* a ParseError.
ChoiceNoMatch(h, n, tokens, log, calls) ==
    IF tokens = <<>>
    THEN RaiseOther("IndexError", <<"list index out of range">>, log, calls)
    ELSE Fail(h, n, RaiseParseError(tokens[1],
                        ErrorMessage(tokens[1], <<"No OR match">>),
                        log, calls), tokens)

\* ChoiceNode.parse
ChoiceParse(h, n, tokens) ==
    LET self == h[n]
        order == ChoiceOrder(self)
        f == Parse(h, order[1], tokens)
        fcalls == <<ChildCall(order[1], tokens, f)>>
    IN  CASE f.kind = "ok" -> Propagate(f, f.log, fcalls)
          [] Recoverable(f.kind) ->
                LET flog == IF self.on_fail
                            THEN Append(f.log, Handled(n, f, FALSE))
                            ELSE f.log
                    s == Parse(h, order[2], tokens)
                    calls == Append(fcalls, ChildCall(order[2], tokens, s))
                IN  CASE s.kind = "ok" -> Propagate(s, flog \o s.log, calls)
                      [] Recoverable(s.kind) ->
                            ChoiceNoMatch(h, n, tokens,
                                IF self.on_fail
                                THEN Append(flog \o s.log, Handled(n, s, FALSE))
                                ELSE flog \o s.log,
                                calls)
                      [] OTHER -> Propagate(s, flog \o s.log, calls)
          [] OTHER -> Propagate(f, f.log, fcalls)

\* FatalNode.parse
FatalParse(h, n, tokens) ==
    LET self == h[n]
        sub == Parse(h, self.node, tokens)
        calls == <<ChildCall(self.node, tokens, sub)>>
    IN  CASE Recoverable(sub.kind) -> Escalate(sub, sub.log, calls)
          [] OTHER -> Propagate(sub, sub.log, calls)

\* node.parse(text, tokens): dispatch on the node's class.
Parse(h, n, tokens) ==
    CASE h[n].kind = "Match" -> NodeParse(h, n, tokens)
      [] h[n].kind = "Pack" -> PackParse(h, n, tokens)
      [] h[n].kind = "Sequence" -> SequenceParse(h, n, tokens)
      [] h[n].kind = "Repeat" -> RepeatParse(h, n, tokens)
      [] h[n].kind = "Choice" -> ChoiceParse(h, n, tokens)
      [] h[n].kind = "Fatal" -> FatalParse(h, n, tokens)

(***************************************************************************)
(* The builder calls.                                                      *)
(***************************************************************************)
NoReturn == [kind |-> "self", result |-> <<>>, tokens |-> <<>>,
             token |-> NoToken, message |-> <<>>, log |-> <<>>,
             calls |-> <<>>]

\* A call of method `op` on node `n`; builder methods return self.
Called(op, n, flag, value) ==
    [op |-> op, self |-> n, flag |-> flag, value |-> value,
     tokens |-> <<>>, ret |-> NoReturn]

Ids == 1..Len(nodes)

\* Node.gather(flag) of a node that does not override it.
NodeGather(h, n, flag) == [h EXCEPT ![n].gather = flag]

RECURSIVE GatherCall(_, _, _)

\* ChoiceNode.gather(flag): calls gather() on both children.
ChoiceGather(h, n, flag) ==
    GatherCall(GatherCall(h, h[n].first, TRUE), h[n].second, TRUE)

\* node.gather(flag): dispatch on the node's class.
GatherCall(h, n, flag) ==
    IF h[n].kind = "Choice" THEN ChoiceGather(h, n, flag)
    ELSE NodeGather(h, n, flag)

\* Node(token_type)
NewNode(token_type) ==
    /\ nodes' = Append(nodes,
                    [NewObject("Match") EXCEPT !.token_type = token_type])
    /\ call' = Called("Node", Len(nodes) + 1, FALSE, token_type)
    /\ UNCHANGED <<gen, frame>>

\* n.expected(value)
Expected(n, value) ==
    /\ nodes' = [nodes EXCEPT ![n].expected_value = value]
    /\ call' = Called("expected", n, FALSE, value)
    /\ UNCHANGED <<gen, frame>>

\* n.unexpected(value)
Unexpected(n, value) ==
    /\ nodes' = [nodes EXCEPT ![n].unexpected_value = value]
    /\ call' = Called("unexpected", n, FALSE, value)
    /\ UNCHANGED <<gen, frame>>

\* n.gather(flag)
Gather(n, flag) ==
    /\ nodes' = GatherCall(nodes, n, flag)
    /\ call' = Called("gather", n, flag, NoValue)
    /\ UNCHANGED <<gen, frame>>

\* n.on_fail(handler), the handler being one that records the error
OnFail(n) ==
    /\ ~nodes[n].on_fail
    /\ nodes' = [nodes EXCEPT ![n].on_fail = TRUE]
    /\ call' = Called("on_fail", n, FALSE, NoValue)
    /\ UNCHANGED <<gen, frame>>

\* PackNode(c), c.pack()
NewPack(c) ==
    /\ nodes' = Append(nodes, [NewObject("Pack") EXCEPT !.node = c])
    /\ call' = Called("PackNode", Len(nodes) + 1, FALSE, NoValue)
    /\ UNCHANGED <<gen, frame>>

\* SequenceNode(l, r), l + r
NewSequence(l, r) ==
    /\ nodes' = Append(nodes,
                    [NewObject("Sequence") EXCEPT !.lhs = l, !.rhs = r])
    /\ call' = Called("SequenceNode", Len(nodes) + 1, FALSE, NoValue)
    /\ UNCHANGED <<gen, frame>>

\* RepeatNode(c, min_times, max_times), c.repeat(min_times, max_times)
NewRepeat(c, min_times, max_times) ==
    /\ nodes' = Append(nodes,
                    [NewObject("Repeat") EXCEPT !.node = c,
                        !.min_times = min_times, !.max_times = max_times])
    /\ call' = Called("RepeatNode", Len(nodes) + 1, FALSE, NoValue)
    /\ UNCHANGED <<gen, frame>>

\* ChoiceNode(f, s), f | s
NewChoice(f, s) ==
    /\ nodes' = Append(nodes,
                    [NewObject("Choice") EXCEPT !.first = f, !.second = s])
    /\ call' = Called("ChoiceNode", Len(nodes) + 1, FALSE, NoValue)
    /\ UNCHANGED <<gen, frame>>

\* Fatal(c)
NewFatal(c) ==
    /\ nodes' = Append(nodes, [NewObject("Fatal") EXCEPT !.node = c])
    /\ call' = Called("Fatal", Len(nodes) + 1, FALSE, NoValue)
    /\ UNCHANGED <<gen, frame>>

\* n.parse(text, tokens)
ParseCall(n, tokens) ==
    /\ call' = [op |-> "parse", self |-> n, flag |-> FALSE, value |-> NoValue,
                tokens |-> tokens, ret |-> Parse(nodes, n, tokens)]
    /\ UNCHANGED <<nodes, gen, frame>>

(***************************************************************************)
(* The tokenizer (tokenizer.py).  A text is a sequence of characters,      *)
(* offsets are 0-based as in Python.  A token specification is an ordered  *)
(* list of kinds [name, ctor, regex]; a regex is a character class         *)
(* repeated, [chars]+ (min = 1) or [chars]* (min = 0): with an empty class *)
(* and min = 0 it is the regex "".                                         *)
(***************************************************************************)
NoGroup == "<None>"          \* m.lastgroup = None
NoMatch == [start |-> -1, end |-> -1, kind |-> NoGroup]
NoError == [what |-> "", kind |-> NoGroup, line |-> 0, col |-> 0,
            snippet |-> <<>>]

\* The longest run of characters of `chars` in the text from offset p.
RECURSIVE RunLength(_, _, _)
RunLength(text, chars, p) ==
    IF p < Len(text) /\ text[p + 1] \in chars
    THEN 1 + RunLength(text, chars, p + 1)
    ELSE 0

\* One alternative (?P<name>regex) tried at offset p: the length of its
\* (greedy) match, or -1; `nonempty` says that an empty match is refused.
AltLength(text, regex, p, nonempty) ==
    LET r == RunLength(text, regex.chars, p) IN
    IF r < regex.min \/ (nonempty /\ r = 0) THEN -1 ELSE r

\* The composite pattern "|".join(parts) tried at offset p: the first
\* alternative that matches there wins; without any alternative the pattern
\* is "", which matches the empty string and sets no group.
MatchAt(text, specs, p, nonempty) ==
    LET alts == {i \in 1..Len(specs) :
                    AltLength(text, specs[i].regex, p, nonempty) >= 0}
    IN  IF specs = <<>> THEN
            IF nonempty THEN NoMatch
            ELSE [start |-> p, end |-> p, kind |-> NoGroup]
        ELSE IF alts = {} THEN NoMatch
        ELSE LET i == CHOOSE i \in alts : \A j \in alts : i <= j
             IN  [start |-> p,
                  end |-> p + AltLength(text, specs[i].regex, p, nonempty),
                  kind |-> specs[i].name]

\* next() of _re_pattern.finditer(text), the iterator standing at offset
\* `at`: the leftmost match from there.  Right after an empty match the
\* iterator refuses another empty match at the same offset.
RECURSIVE Search(_, _, _, _)
Search(text, specs, at, nonempty) ==
    IF at > Len(text) THEN NoMatch
    ELSE LET m == MatchAt(text, specs, at, nonempty) IN
         IF m # NoMatch THEN m
         ELSE Search(text, specs, at + 1, FALSE)

\* value.count("\n")
Newlines(value) == Cardinality({i \in 1..Len(value) : value[i] = "\n"})

\* len(value.rsplit("\n", 1)[1]): the characters after the last newline.
TailLength(value) ==
    Len(value) - (CHOOSE i \in 1..Len(value) :
                    /\ value[i] = "\n"
                    /\ \A j \in (i + 1)..Len(value) : value[j] # "\n")

\* A mutation of Advance: the column is advanced by the whole length of the
\* value, newlines or not.
AdvanceIgnoringNewlines(line, col, value) ==
    <<line + Newlines(value), col + Len(value)>>

\* The update of the line and column counters by a matched value.
Advance(line, col, value) ==
    IF Newlines(value) > 0
    THEN <<line + Newlines(value), 1 + TailLength(value)>>
    ELSE <<line, col + Len(value)>>

\* new_func(value, start_line, start_col), new_func being a Token class.
NewToken(ctor, value, line, col) ==
    [type |-> ctor, value |-> value, line |-> line, column |-> col]

\* The generator object: its position (created, suspended at the yield,
\* ended by an exception or by returning), the arguments, the locals line,
\* col, pos, the finditer iterator (at, nonempty), the end of the match the
\* generator is suspended on, and what it has yielded and raised so far.
NoGen ==
    [pc |-> "none", text |-> <<>>, specs |-> <<>>, line |-> 0, col |-> 0,
     pos |-> 0, at |-> 0, nonempty |-> FALSE, mend |-> 0, out |-> <<>>,
     error |-> NoError]

\* raise ValueError(f"Unrecognized input at {line}:{col}: {snippet!r}")
Unrecognized(g, snippet) ==
    [g EXCEPT !.pc = "raised",
              !.error = [what |-> "Unrecognized input", kind |-> NoGroup,
                         line |-> g.line, col |-> g.col,
                         snippet |-> snippet]]

\* raise ValueError(f"Zero-length match for token '{kind}' at {line}:{col}")
ZeroLength(g, kind) ==
    [g EXCEPT !.pc = "raised",
              !.error = [what |-> "Zero-length match", kind |-> kind,
                         line |-> g.line, col |-> g.col, snippet |-> <<>>]]

\* specs[kind]
SpecOf(specs, kind) ==
    specs[CHOOSE i \in 1..Len(specs) : specs[i].name = kind]

\* The body of tokenize from the top of the for loop to the next yield,
\* raise or return.
RECURSIVE Scan(_)
Scan(g) ==
    LET m == Search(g.text, g.specs, g.at, g.nonempty) IN
    IF m = NoMatch THEN
        \* the loop is over
        IF g.pos # Len(g.text)
        THEN Unrecognized(g, SubSeq(g.text, g.pos + 1,
                                    IF g.pos + 20 < Len(g.text)
                                    THEN g.pos + 20 ELSE Len(g.text)))
        ELSE [g EXCEPT !.pc = "returned"]
    ELSE
        LET it == [g EXCEPT !.at = m.end, !.nonempty = (m.start = m.end)]
            value == SubSeq(g.text, m.start + 1, m.end)
        IN  IF m.start # g.pos
            THEN Unrecognized(it, SubSeq(g.text, g.pos + 1, m.start))
            ELSE IF m.kind = NoGroup
            THEN Scan([it EXCEPT !.pos = m.end])
            ELSE IF value = <<>>
            THEN ZeroLength(it, m.kind)
            ELSE LET moved == Advance(g.line, g.col, value)
                     new_func == SpecOf(g.specs, m.kind).ctor
                 IN  [it EXCEPT !.line = moved[1], !.col = moved[2],
                                !.mend = m.end, !.pc = "yield",
                                !.out = Append(g.out,
                                    NewToken(new_func, value, g.line, g.col))]

\* gen = tokenize(text, specs): makes the generator; no line of the body
\* runs before the first next().
Tokenize(text, specs) ==
    /\ gen.pc = "none"
    /\ gen' = [NoGen EXCEPT !.pc = "created", !.text = text, !.specs = specs]
    /\ UNCHANGED <<nodes, call, frame>>

\* next(gen): the first one runs the initial assignments, a later one
\* resumes after the yield with pos = m.end(); both go on to the for loop.
NextItem ==
    /\ gen.pc \in {"created", "yield"}
    /\ gen' = Scan(IF gen.pc = "created"
                   THEN [gen EXCEPT !.line = 1, !.col = 1, !.pos = 0]
                   ELSE [gen EXCEPT !.pos = gen.mend])
    /\ UNCHANGED <<nodes, call, frame>>

(***************************************************************************)
(* RepeatNode.parse, one turn of its `while tokens:` loop at a time.  The  *)
(* frame holds the locals of the call.  count decides nothing beyond       *)
(* min_times and max_times, so it is kept exactly up to CountCap and stays *)
(* there; turn is the number of completed iterations modulo 2.             *)
(***************************************************************************)
CountCap == MaxTimes + 1

NoFrame ==
    [pc |-> "none", self |-> NoNode, given |-> <<>>, count |-> 0, turn |-> 0,
     result |-> <<>>, tokens |-> <<>>, ret |-> NoReturn]

\* The call ends: it returns or raises `outcome`.
End(f, outcome) ==
    [f EXCEPT !.pc = IF outcome.kind = "ok" THEN "returned" ELSE "raised",
              !.ret = outcome]

\* n.parse(text, tokens) of a Repeat, up to the loop: the locals are set
\* and the configuration is checked.
RepeatEnter(n, tokens) ==
    /\ frame.pc = "none"
    /\ nodes[n].kind = "Repeat"
    /\ LET self == nodes[n]
           f == [NoFrame EXCEPT !.self = n, !.given = tokens,
                                !.tokens = tokens]
       IN  frame' =
             IF TruthyMax(self.max_times) /\ self.min_times > self.max_times
             THEN End(f, Fail(nodes, n,
                              RaiseOther("ValueError",
                                         <<"min_times > max_times">>,
                                         <<>>, <<>>), tokens))
             ELSE IF self.node = NoNode
             THEN End(f, Fail(nodes, n,
                              RaiseOther("ValueError", <<"node is not set">>,
                                         <<>>, <<>>), tokens))
             ELSE [f EXCEPT !.pc = "loop"]
    /\ UNCHANGED <<nodes, call, gen>>

\* One test of `while tokens:` and, when it passes, one run of the loop
\* body.  The body completes only if the child's parse returns or raises.
RepeatIterate ==
    /\ frame.pc = "loop"
    /\ LET self == nodes[frame.self]
           tokens == frame.tokens
           sub == Parse(nodes, self.node, tokens)
       IN  IF tokens = <<>>
              \/ (TruthyMax(self.max_times) /\ frame.count >= self.max_times)
           THEN frame' = End(frame, Return(frame.result, tokens, <<>>, <<>>))
           ELSE
             /\ sub.kind # "diverges"
             /\ frame' =
                  CASE sub.kind = "ok" ->
                        [frame EXCEPT
                            !.count = IF @ < CountCap THEN @ + 1 ELSE @,
                            !.turn = 1 - @,
                            !.result = @ \o sub.result,
                            !.tokens = sub.tokens]
                    [] Recoverable(sub.kind) ->
                        IF frame.count < self.min_times
                        THEN End(frame,
                                 Fail(nodes, frame.self,
                                      MinimumNotMet(self, tokens, <<>>, <<>>),
                                      tokens))
                        ELSE End(frame,
                                 Return(frame.result, tokens, <<>>, <<>>))
                    [] OTHER -> End(frame, Propagate(sub, <<>>, <<>>))
    /\ UNCHANGED <<nodes, call, gen>>

(***************************************************************************)
(* Inputs.  A token list is positioned as the tokenizer would position     *)
(* one-character tokens on one line: token i is at 1:i.                    *)
(***************************************************************************)
SeqsUpTo(S, k) == UNION {[1..m -> S] : m \in 0..k}

Positioned(ts) ==
    [i \in 1..Len(ts) |->
        [type |-> ts[i].type, value |-> ts[i].value, line |-> 1, column |-> i]]

TokenLists(types, values, k) ==
    {Positioned(ts) : ts \in SeqsUpTo([type : types, value : values], k)}

Times == 0..MaxTimes
MaxChoices == {NoMax} \cup Times

Init ==
    /\ nodes = <<>>
    /\ call = Called("import", NoNode, FALSE, NoValue)
    /\ gen = NoGen
    /\ frame = NoFrame

(***************************************************************************)
(* Spec: well-formed grammars of every node kind over Word tokens "a" and  *)
(* "b"; children may be shared.  A node is configured right after it is    *)
(* built (Node(T).expected("a").gather().on_fail(h)), and parse is called  *)
(* on the node built last.                                                 *)
(***************************************************************************)
Last == Len(nodes)

Room == Len(nodes) < MaxNodes
Built == nodes # <<>>
WordLists == TokenLists({"Word"}, {"a", "b"}, MaxLen)

Next ==
    \/ Room /\ NewNode("Word")
    \/ Room /\ \E c \in Ids : NewPack(c)
    \/ Room /\ \E l, r \in Ids : NewSequence(l, r)
    \/ Room /\ \E c \in Ids, mn \in Times, mx \in MaxChoices :
                    NewRepeat(c, mn, mx)
    \/ Room /\ \E f, s \in Ids : NewChoice(f, s)
    \/ Room /\ \E c \in Ids : NewFatal(c)
    \/ Built /\ nodes[Last].kind = "Match" /\ Expected(Last, "a")
    \/ Built /\ nodes[Last].kind \in {"Match", "Choice"}
             /\ \E flag \in BOOLEAN : Gather(Last, flag)
    \/ Built /\ OnFail(Last)
    \/ Built /\ \E tokens \in WordLists : ParseCall(Last, tokens)

Spec == Init /\ [][Next]_vars

(***************************************************************************)
(* SpecMatch: one Match node with a type filter, every combination of      *)
(* expected / unexpected / gather / on_fail, against tokens of two token   *)
(* classes and the values "", "a", "b".                                    *)
(***************************************************************************)
MatchValues == {"", "a", "b"}
MatchLists == TokenLists({"Word", "Num"}, MatchValues, MaxMatchLen)

NextMatch ==
    \/ Len(nodes) < MaxMatchNodes /\ \E t \in {"Token", "Word"} : NewNode(t)
    \/ Built /\ \E v \in MatchValues : Expected(Last, v)
    \/ Built /\ \E v \in MatchValues : Unexpected(Last, v)
    \/ Built /\ \E flag \in BOOLEAN : Gather(Last, flag)
    \/ Built /\ OnFail(Last)
    \/ Built /\ \E tokens \in MatchLists : ParseCall(Last, tokens)

SpecMatch == Init /\ [][NextMatch]_vars

(***************************************************************************)
(* SpecConfig: grammars that may be malformed: a Match node without a type *)
(* filter, a Sequence, Pack or Repeat built with None for a child, a       *)
(* Repeat with min_times > max_times.                                      *)
(***************************************************************************)
RoomConfig == Len(nodes) < MaxConfigNodes
MaybeIds == {NoNode} \cup Ids
ConfigLists == TokenLists({"Word"}, {"a"}, MaxLen)

NextConfig ==
    \/ RoomConfig /\ \E t \in {NoType, "Word"} : NewNode(t)
    \/ RoomConfig /\ \E c \in MaybeIds : NewPack(c)
    \/ RoomConfig /\ \E l, r \in MaybeIds : NewSequence(l, r)
    \/ RoomConfig /\ \E c \in MaybeIds, mn \in Times, mx \in MaxChoices :
                        NewRepeat(c, mn, mx)
    \/ Built /\ OnFail(Last)
    \/ Built /\ \E tokens \in ConfigLists : ParseCall(Last, tokens)

SpecConfig == Init /\ [][NextConfig]_vars

(***************************************************************************)
(* SpecTokenize: one tokenize call on a text over a word character, a      *)
(* character no regex knows and the newline, consumed item by item.        *)
(***************************************************************************)
Chars == {"a", "b", "\n"}
Classes == {{"a"}, {"\n"}, {"a", "\n"}}
Regexes == {[chars |-> {}, min |-> 0]} \cup [chars : Classes, min : {0, 1}]
Texts == SeqsUpTo(Chars, MaxText)

SpecLists ==
    {[i \in 1..Len(rs) |->
        [name |-> "K" \o ToString(i), ctor |-> "Token", regex |-> rs[i]]] :
     rs \in SeqsUpTo(Regexes, MaxKinds)}

NextTokenize ==
    \/ gen.pc = "none"
          /\ \E text \in Texts, specs \in SpecLists : Tokenize(text, specs)
    \/ NextItem

SpecTokenize == Init /\ [][NextTokenize]_vars

(***************************************************************************)
(* SpecLoop: grammars without on_fail handlers, and one parse call of a    *)
(* Repeat followed through its loop.  The interpreter keeps running the    *)
(* call (single-threaded, synchronous, nothing blocks): an iteration that  *)
(* can run does run.                                                       *)
(***************************************************************************)
RoomLoop == Len(nodes) < MaxLoopNodes
Idle == frame.pc = "none"

NextLoop ==
    \/ Idle /\ RoomLoop /\ NewNode("Word")
    \/ Idle /\ RoomLoop /\ \E c \in Ids : NewPack(c)
    \/ Idle /\ RoomLoop /\ \E l, r \in Ids : NewSequence(l, r)
    \/ Idle /\ RoomLoop /\ \E c \in Ids, mn \in Times, mx \in MaxChoices :
                               NewRepeat(c, mn, mx)
    \/ Idle /\ RoomLoop /\ \E f, s \in Ids : NewChoice(f, s)
    \/ Idle /\ RoomLoop /\ \E c \in Ids : NewFatal(c)
    \/ Idle /\ Built /\ nodes[Last].kind = "Match" /\ Expected(Last, "a")
    \/ Built /\ \E tokens \in WordLists : RepeatEnter(Last, tokens)
    \/ RepeatIterate

SpecLoop == Init /\ [][NextLoop]_vars /\ WF_vars(RepeatIterate)

(***************************************************************************)
(* Properties.                                                             *)
(***************************************************************************)
Parsed == call.op = "parse"
Ret == call.ret
Self == nodes[call.self]
Returned == Parsed /\ Ret.kind = "ok"

IsSuffix(s, t) == \E k \in 0..Len(t) : s = SubSeq(t, k + 1, Len(t))
Contains(msg, piece) == \E i \in 1..Len(msg) : msg[i] = piece
OkCalls(calls) == {i \in 1..Len(calls) : calls[i].kind = "ok"}

\* The node's own handler ran on a recoverable failure and the node then
\* returned instead of raising.
SuppressedBy(n, log) ==
    \E i \in 1..Len(log) :
        log[i].node = n /\ log[i].returned /\ log[i].error = "ParseError"

\* C1: whenever parse returns (result, remaining), remaining is a suffix of
\* the token list passed in; the same holds of every child call the node
\* made on the way.
C1_RemainingIsSuffix ==
    Parsed =>
        /\ Ret.kind = "ok" => IsSuffix(Ret.tokens, call.tokens)
        /\ \A i \in 1..Len(Ret.calls) :
              /\ IsSuffix(Ret.calls[i].tokens, call.tokens)
              /\ Ret.calls[i].kind = "ok" =>
                    IsSuffix(Ret.calls[i].rest, Ret.calls[i].tokens)

\* C1 witness: a Sequence returned after consuming one of two tokens.
C1_Witness ==
    /\ Returned /\ Self.kind = "Sequence"
    /\ Len(call.tokens) = 2 /\ Len(Ret.tokens) = 1
    /\ Ret.tokens = Tail(call.tokens)

\* C2: whenever a node's own on_fail handler suppresses a recoverable
\* failure, parse returns an empty result and exactly the tokens passed in.
C2_SuppressedFailureConsumesNothing ==
    Parsed /\ SuppressedBy(call.self, Ret.log) =>
        Ret.kind = "ok" /\ Ret.result = <<>> /\ Ret.tokens = call.tokens

\* C3: a FatalParseError raised by a child propagates unchanged out of the
\* enclosing node: the child call that raised it is the last one made (a
\* Choice does not go on to its second branch, a Repeat does not go on or
\* swallow it), and no on_fail handler is invoked with it.
C3_FatalPropagates ==
    Parsed =>
        /\ \A i \in 1..Len(Ret.calls) :
              Ret.calls[i].kind = "FatalParseError" =>
                  /\ i = Len(Ret.calls)
                  /\ Ret.kind = "FatalParseError"
                  /\ Ret.token = Ret.calls[i].token
                  /\ Ret.message = Ret.calls[i].message
        /\ \A j \in 1..Len(Ret.log) : Ret.log[j].error # "FatalParseError"

\* C3 witness: a Repeat with an on_fail handler whose min_times was already
\* satisfied when its child raised the fatal error.
C3_Witness ==
    /\ Parsed /\ Self.kind = "Repeat" /\ Self.on_fail
    /\ Len(Ret.calls) = 2 /\ Ret.calls[1].kind = "ok"
    /\ Self.min_times <= 1
    /\ Ret.calls[2].kind = "FatalParseError"
    /\ Ret.kind = "FatalParseError"

\* C4 as stated: whenever the child of Fatal(child) fails non-fatally, also
\* when the child's own on_fail handler ran on the failure, Fatal raises a
\* FatalParseError with the same token and the original message text.
C4_FatalAlwaysRaises ==
    Parsed /\ Self.kind = "Fatal"
      /\ (Ret.calls[1].kind = "ParseError"
            \/ SuppressedBy(Self.node, Ret.log)) =>
        Ret.kind = "FatalParseError"

\* C4 amended: whenever the child of Fatal(child) raises a recoverable
\* ParseError, Fatal raises a FatalParseError with the same token whose
\* message ends with the original message text; when the child's own
\* on_fail handler suppressed the failure, the child returned, and Fatal
\* returns that (empty, tokens) result.
C4_FatalEscalatesRaisedFailure ==
    Parsed /\ Self.kind = "Fatal" =>
        /\ Ret.calls[1].kind = "ParseError" =>
              /\ Ret.kind = "FatalParseError"
              /\ Ret.token = Ret.calls[1].token
              /\ IsSuffix(Ret.calls[1].message, Ret.message)
        /\ SuppressedBy(Self.node, Ret.log) =>
              /\ Ret.calls[1].kind = "ok"
              /\ Ret.kind = "ok"
              /\ Ret.result = Ret.calls[1].result
              /\ Ret.tokens = Ret.calls[1].rest

\* C4 witness: Fatal escalated a positioned ParseError of its child.
C4_Witness ==
    /\ Parsed /\ Self.kind = "Fatal"
    /\ Ret.calls[1].kind = "ParseError" /\ Ret.calls[1].token # NoToken
    /\ Ret.kind = "FatalParseError"

\* C5: a Repeat without on_fail returns only if its child succeeded at
\* least min_times times; when the child fails or the tokens run out before
\* that, it raises a ParseError "Expected at least <min> matches".
C5_RepeatMinimum ==
    Parsed /\ Self.kind = "Repeat" /\ ~Self.on_fail
      /\ Ret.kind \in {"ok", "ParseError"} =>
        LET k == Cardinality(OkCalls(Ret.calls)) IN
        /\ Ret.kind = "ok" => k >= Self.min_times
        /\ k < Self.min_times =>
              /\ Ret.kind = "ParseError"
              /\ Contains(Ret.message, "Expected at least ")
              /\ Contains(Ret.message, ToString(Self.min_times))

C7_ChoiceBothFail ==
    Parsed /\ Self.kind = "Choice" /\ Len(Ret.calls) = 2
      /\ Ret.calls[1].kind = "ParseError"
      /\ Ret.calls[2].kind = "ParseError" =>
        IF Self.on_fail
        THEN Ret.kind = "ok" /\ Ret.result = <<>> /\ Ret.tokens = call.tokens
        ELSE /\ Ret.kind = "ParseError"
             /\ Contains(Ret.message, "No OR match")
             /\ call.tokens # <<>> => Ret.token = call.tokens[1]

\* C8: a Match node with a type filter and a head token of that type, with
\* expected(v) alone set, matches iff the head's value equals v; with
\* unexpected(v) alone set, iff it differs from v.  A match consumes the
\* head and yields [head] iff gather; a mismatch without on_fail raises a
\* ParseError.
C8_ValueConstraint ==
    Parsed /\ Self.kind = "Match" /\ call.tokens # <<>>
      /\ IsInstance(call.tokens[1], Self.token_type)
      /\ (Self.expected_value = NoValue) # (Self.unexpected_value = NoValue) =>
        LET head == call.tokens[1]
            matches == IF Self.expected_value # NoValue
                       THEN head.value = Self.expected_value
                       ELSE head.value # Self.unexpected_value
        IN  IF matches
            THEN /\ Ret.kind = "ok"
                 /\ Ret.tokens = Tail(call.tokens)
                 /\ Ret.result = IF Self.gather THEN <<Leaf(head)>> ELSE <<>>
            ELSE ~Self.on_fail => Ret.kind = "ParseError"

\* The configuration errors: no type filter, an unset child, min > max with
\* max given.
ConfigError(self) ==
    \/ self.kind = "Match" /\ self.token_type = NoType
    \/ self.kind = "Sequence" /\ (self.lhs = NoNode \/ self.rhs = NoNode)
    \/ self.kind = "Pack" /\ self.node = NoNode
    \/ self.kind = "Repeat" /\ self.node = NoNode
    \/ self.kind = "Repeat" /\ self.max_times # NoMax
                            /\ self.min_times > self.max_times

\* C9: a configuration error always makes parse raise a ValueError, with or
\* without on_fail: it is never handed to an on_fail handler and never
\* replaced by an (empty, tokens) result.  (Stated for a non-empty token
\* list: on an empty one a Match node reports "tokens is empty" before it
\* looks at its type filter.)
C9_ConfigErrorRaises ==
    Parsed /\ ConfigError(Self) /\ call.tokens # <<>> =>
        /\ Ret.kind = "ValueError"
        /\ \A j \in 1..Len(Ret.log) : Ret.log[j].error # "ValueError"

\* C10: after gather(flag) on a Choice whose children are Match nodes, both
\* children's gather flag equals flag, for flag true and for flag false.
C10_ChoiceGatherForwardsFlag ==
    call.op = "gather" /\ nodes[call.self].kind = "Choice"
      /\ nodes[nodes[call.self].first].kind = "Match"
      /\ nodes[nodes[call.self].second].kind = "Match" =>
        /\ nodes[nodes[call.self].first].gather = call.flag
        /\ nodes[nodes[call.self].second].gather = call.flag

\* The results of the child calls `calls`, concatenated in order.
RECURSIVE ConcatResults(_)
ConcatResults(calls) ==
    IF calls = <<>> THEN <<>>
    ELSE calls[1].result \o ConcatResults(Tail(calls))

\* The node's own handler ran on some error and the node then returned its
\* ([], tokens).
HandlerReturned(n, log) ==
    \E i \in 1..Len(log) : log[i].node = n /\ log[i].returned

\* C11: a Repeat that returns (not through its own on_fail) is greedy and
\* bounded: its k successful child iterations are consecutive from the head
\* of the input; k never exceeds max when max is given, max = 0 included;
\* the run is the longest one (below the cap, the child does not match what
\* remains); the result is the k iteration results concatenated; remaining
\* is the tokens as of the last successful iteration.
C11_RepeatGreedyBounded ==
    Returned /\ Self.kind = "Repeat" /\ ~HandlerReturned(call.self, Ret.log) =>
        LET c == Ret.calls
            k == Cardinality(OkCalls(c))
            mx == Self.max_times
        IN  /\ \A i \in 1..k : c[i].kind = "ok"
            /\ mx # NoMax => k <= mx
            /\ (mx = NoMax \/ k < mx) /\ Ret.tokens # <<>> =>
                  Parse(nodes, Self.node, Ret.tokens).kind # "ok"
            /\ Ret.result = ConcatResults(SubSeq(c, 1, k))
            /\ Ret.tokens = IF k = 0 THEN call.tokens ELSE c[k].rest

\* C12: when the child of a Pack returns, the Pack returns the child's
\* remaining tokens; its result is one nested group holding the child's whole
\* result when that result is non-empty, and is empty when it is empty.
C12_PackShapesResult ==
    Parsed /\ Self.kind = "Pack" =>
        LET sub == Parse(nodes, Self.node, call.tokens) IN
        /\ Len(Ret.calls) = 1
        /\ Ret.calls[1].node = Self.node /\ Ret.calls[1].tokens = call.tokens
        /\ Ret.calls[1].kind = sub.kind
        /\ sub.kind = "ok" =>
              /\ Ret.kind = "ok"
              /\ Ret.tokens = sub.tokens
              /\ sub.result = <<>> => Ret.result = <<>>
              /\ sub.result # <<>> =>
                    /\ Len(Ret.result) = 1
                    /\ Ret.result[1].group
                    /\ Ret.result[1].items = sub.result

\* C12 witness: a Pack returned one group of two tokens, its child having
\* consumed both.
C12_Witness ==
    /\ Returned /\ Self.kind = "Pack"
    /\ Len(call.tokens) = 2 /\ Ret.tokens = <<>>
    /\ Len(Ret.result) = 1 /\ Ret.result[1].group
    /\ Len(Ret.result[1].items) = 2

\* The true 1-based line and column of offset `off` of a text.
TrueLine(text, off) == 1 + Cardinality({i \in 1..off : text[i] = "\n"})
TrueColumn(text, off) ==
    LET breaks == {0} \cup {i \in 1..off : text[i] = "\n"}
    IN  1 + off - (CHOOSE i \in breaks : \A j \in breaks : j <= i)

\* The offset of the first character of the i-th yielded token: the yielded
\* values lie end to end from offset 0.
RECURSIVE TotalLength(_)
TotalLength(out) ==
    IF out = <<>> THEN 0 ELSE Len(out[1].value) + TotalLength(Tail(out))
StartOf(i) == TotalLength(SubSeq(gen.out, 1, i - 1))

\* The offset the scan has reached: the end of the match just yielded, or
\* pos.
Reached == IF gen.pc = "yield" THEN gen.mend ELSE gen.pos
Scanning == gen.pc \in {"yield", "raised", "returned"}

\* C13: at every step of the scan the tracked (line, col) is the true line
\* and column of the offset reached; every yielded token is the text at its
\* offset and carries the position of its first character; an
\* unrecognized-input error reports the position of the first unmatched
\* character.
C13_PositionTracksOffset ==
    Scanning =>
        /\ gen.line = TrueLine(gen.text, Reached)
        /\ gen.col = TrueColumn(gen.text, Reached)
        /\ \A i \in 1..Len(gen.out) :
              /\ gen.out[i].value =
                    SubSeq(gen.text, StartOf(i) + 1,
                           StartOf(i) + Len(gen.out[i].value))
              /\ gen.out[i].line = TrueLine(gen.text, StartOf(i))
              /\ gen.out[i].column = TrueColumn(gen.text, StartOf(i))
        /\ gen.pc = "raised" /\ gen.error.what = "Unrecognized input" =>
              /\ TotalLength(gen.out) < Len(gen.text)
              /\ gen.error.line = TrueLine(gen.text, TotalLength(gen.out))
              /\ gen.error.col = TrueColumn(gen.text, TotalLength(gen.out))

\* C13 witness: after a token with a newline inside, unrecognized input was
\* reported on line 2 past column 1.
C13_Witness ==
    /\ gen.pc = "raised" /\ gen.error.what = "Unrecognized input"
    /\ gen.out # <<>> /\ Newlines(gen.out[1].value) = 1
    /\ gen.error.line = 2 /\ gen.error.col > 1

\* C14: a run of tokenize that ends with the zero-length-match error has
\* yielded no token, wherever in the text the zero-length match occurs.
C14_ZeroLengthBeforeOutput ==
    gen.pc = "raised" /\ gen.error.what = "Zero-length match" =>
        gen.out = <<>>

\* The nodes of the grammar tree under n, n included.
Children(h, n) ==
    {h[n].node, h[n].lhs, h[n].rhs, h[n].first, h[n].second} \ {NoNode}
RECURSIVE Tree(_, _)
Tree(h, n) == {n} \cup UNION {Tree(h, c) : c \in Children(h, n)}
NoHandlers(h, n) == \A k \in Tree(h, n) : ~h[k].on_fail

\* C15: a parse call on a finite token list and a finite grammar tree
\* without on_fail handlers, once in its loop, eventually returns or raises.
C15_ParseTerminates ==
    [](frame.pc = "loop" /\ NoHandlers(nodes, frame.self) =>
          <>(frame.pc \in {"returned", "raised"}))

\* The invocations of node n's own on_fail handler in a log.
OwnHandled(n, log) == {i \in 1..Len(log) : log[i].node = n}

\* C16: on a non-empty token list, the on_fail handler of a Choice is
\* invoked only when both branches failed non-fatally, and then exactly
\* once, with the "No OR match" error; it is not invoked during a parse in
\* which a branch succeeds (or raises a fatal error).
C16_ChoiceHandlerOnlyOnOwnFailure ==
    Parsed /\ Self.kind = "Choice" /\ Self.on_fail /\ call.tokens # <<>> =>
        LET own == OwnHandled(call.self, Ret.log)
            both_failed == /\ Len(Ret.calls) = 2
                           /\ Ret.calls[1].kind = "ParseError"
                           /\ Ret.calls[2].kind = "ParseError"
        IN  /\ ~both_failed => own = {}
            /\ both_failed =>
                  /\ Cardinality(own) = 1
                  /\ \A i \in own : Contains(Ret.log[i].message, "No OR match")

====
